---- MODULE Spec2Model ----
(***************************************************************************)
(* State-machine model of the chat client.  The repository carries three   *)
(* generations of the same page script; the variable `build` says which    *)
(* one is running:                                                         *)
(*    "enhanced"  src/unnamed/part_000  (sessions with pin/archive flags,  *)
(*                message ids, context menu, keyboard shortcuts)           *)
(*    "index"     src/index.tsx         (id/title/messages sessions only)  *)
(* Text is a sequence of one-character strings.  Times are integers        *)
(* (Date.now()); the session id `chat_<t>` is modelled by the integer t.   *)
(***************************************************************************)
EXTENDS Integers, Sequences, FiniteSets, TLC

VARIABLES
    build,               \* which generation of the script is loaded
    now,                 \* the value the clock returned when last read
    nextId,              \* counter behind generateId() / DOM node identity
    chatHistory,         \* in-memory session collection (head first)
    storage,             \* localStorage['chatHistory']
    currentChatId,       \* id of the session shown, or NoChat
    isAwaitingResponse,  \* module-level busy flag
    view,                \* chatContainer: the .message elements, in order
    handlers,            \* suspended handleFormSubmit / handleRegenerate calls
    edits,               \* number of sidebar and shortcut handlers run so far
    settings,            \* module-level settings object
    settingsItem,        \* localStorage['settings']
    lastOp               \* history: the handler or step that ran last

vars == <<build, now, nextId, chatHistory, storage, currentChatId,
          isAwaitingResponse, view, handlers, edits, settings, settingsItem,
          lastOp>>

prefs == <<settings, settingsItem>>

----------------------------------------------------------------------------
(* Bounds *)
MaxTime == 2
MaxIds == 4
MaxChunks == 2
MaxEdits == 2
MaxPromptLen == 40

(* The values the next read of the clock can return.  Date.now() is the    *)
(* wall clock in milliseconds: a later read is taken here never to return  *)
(* less than an earlier one, and two reads can return the same value.      *)
Times == now..MaxTime

(* currentChatId = null *)
NoChat == 0

(* localStorage.getItem returns null *)
NoItem == [absent |-> TRUE]

Inputs == { <<>>, <<" ">>, <<"a">>, <<" ", "b", " ">> }
TitleInputs == { <<" ">>, <<" ", "a">> }

(* The text of the k-th chunk the remote model sends: x, y, x, ... *)
ChunkAt(k) == IF k % 2 = 1 THEN <<"x">> ELSE <<"y">>

ErrorText == <<"O", "o", "p", "s", "!">>
ErrorTextRegenerate == <<"O", "o", "p", "s", "!", "r", "e", "g", "e", "n">>

----------------------------------------------------------------------------
(* Pure helpers *)

(* The white space String.prototype.trim strips, over the characters the   *)
(* model draws.                                                            *)
IsSpace(c) == c \in {" ", "\n"}

RECURSIVE TrimStart(_)
TrimStart(s) ==
    IF s = <<>> THEN <<>>
    ELSE IF IsSpace(Head(s)) THEN TrimStart(Tail(s)) ELSE s

RECURSIVE TrimEnd(_)
TrimEnd(s) ==
    IF s = <<>> THEN <<>>
    ELSE IF IsSpace(s[Len(s)]) THEN TrimEnd(SubSeq(s, 1, Len(s) - 1)) ELSE s

Trim(s) == TrimEnd(TrimStart(s))

RECURSIVE Concat(_)
Concat(ss) == IF ss = <<>> THEN <<>> ELSE Head(ss) \o Concat(Tail(ss))

Ids(h) == { h[i].id : i \in 1..Len(h) }

Find(h, id) ==
    IF \E i \in 1..Len(h) : h[i].id = id
    THEN CHOOSE i \in 1..Len(h) : h[i].id = id /\ \A j \in 1..(i - 1) : h[j].id # id
    ELSE 0

(* Faulty variant: the cut is made at 30 characters. *)
TitleOfCutAt30(prompt) ==
    IF Len(prompt) > 30
    THEN SubSeq(prompt, 1, 30) \o <<".", ".", ".">>
    ELSE prompt

(* prompt.length > 30 ? prompt.substring(0, 27) + '...' : prompt *)
TitleOf(prompt) ==
    IF Len(prompt) > 30
    THEN SubSeq(prompt, 1, 27) \o <<".", ".", ".">>
    ELSE prompt

----------------------------------------------------------------------------
(* Markdown rendering *)
(* A text is a sequence of tokens.  A character of the raw text is a       *)
(* one-character string; markup the renderer writes is one token per       *)
(* emitted piece ("<strong>", "&lt;", ...), which no later pattern of the   *)
(* renderer can match inside, since none of them holds a star, a          *)
(* backtick, a square or a                                                 *)
(* round bracket or a newline.                                            *)

(* The word characters of the patterns, over the characters the model     *)
(* draws.                                                                  *)
WordChars == {"a", "b", "c", "d", "e", "f", "g", "x", "y", "_", "0", "1"}

(* The backtick character (a TLA+ string cannot hold one). *)
Backtick == "BACKTICK"

FenceMark == <<Backtick, Backtick, Backtick>>

PlaceholderTokens ==
    <<"__CODEBLOCK_0__", "__CODEBLOCK_1__", "__CODEBLOCK_2__",
      "__CODEBLOCK_3__">>

(* A placeholder text typed as such is one token; it is made of word       *)
(* characters only.                                                        *)
IsPlaceholder(c) == \E k \in DOMAIN PlaceholderTokens : c = PlaceholderTokens[k]

IsWord(c) == c \in WordChars \/ IsPlaceholder(c)

(* The least index j >= i at which pat occurs in s, or 0. *)
IndexOfFrom(s, pat, i) ==
    LET at == { j \in i..(Len(s) - Len(pat) + 1) :
                   SubSeq(s, j, j + Len(pat) - 1) = pat }
    IN IF at = {} THEN 0 ELSE CHOOSE j \in at : \A k \in at : j <= k

(* The length of the run of word characters of s that starts at i. *)
RECURSIVE WordRun(_, _)
WordRun(s, i) ==
    IF i <= Len(s) /\ IsWord(s[i]) THEN 1 + WordRun(s, i + 1) ELSE 0

NoMatch == [ok |-> FALSE]

(* The fence pattern matched at the head of s: three backticks, the       *)
(* longest run of word characters (the language tag), a newline, the      *)
(* shortest text that is followed by three backticks (the code), and the   *)
(* three backticks.                                                        *)
FenceAt(s) ==
    IF Len(s) >= 3 /\ SubSeq(s, 1, 3) = FenceMark
    THEN LET nl == 4 + WordRun(s, 4)
             close == IF nl <= Len(s) /\ s[nl] = "\n"
                      THEN IndexOfFrom(s, FenceMark, nl + 1)
                      ELSE 0
         IN IF close # 0
            THEN [ok |-> TRUE, lang |-> SubSeq(s, 4, nl - 1),
                  code |-> SubSeq(s, nl + 1, close - 1),
                  rest |-> SubSeq(s, close + 3, Len(s))]
            ELSE NoMatch
    ELSE NoMatch

(* Faulty variant: only '<' is escaped. *)
escapeHTMLOpeningOnly(html) ==
    [i \in 1..Len(html) |-> IF html[i] = "<" THEN "&lt;" ELSE html[i]]

(* html.replace(/</g, '&lt;').replace(/>/g, '&gt;') *)
escapeHTML(html) ==
    [i \in 1..Len(html) |->
        IF html[i] = "<" THEN "&lt;"
        ELSE IF html[i] = ">" THEN "&gt;" ELSE html[i]]

(* `<pre><code class="language-${lang || 'plaintext'} hljs">${code}        *)
(* </code></pre>`                                                          *)
CodeBlock(lang, code) ==
    <<"<pre>", "<code class=\"language-">>
      \o (IF lang = <<>> THEN <<"plaintext">> ELSE lang)
      \o <<" hljs\">">> \o code \o <<"</code>", "</pre>">>

(* part_000, step 1: every fence becomes a placeholder token and its       *)
(* rendered block is pushed on placeholders; n blocks were pushed before.  *)
RECURSIVE IsolateCodeBlocks(_, _)
IsolateCodeBlocks(s, n) ==
    IF IndexOfFrom(s, FenceMark, 1) = 0
    THEN [text |-> s, placeholders |-> <<>>]
    ELSE LET m == FenceAt(s)
         IN IF m.ok
            THEN LET r == IsolateCodeBlocks(m.rest, n + 1)
                 IN [text |-> <<PlaceholderTokens[n + 1]>> \o r.text,
                     placeholders |->
                        <<CodeBlock(m.lang, escapeHTML(Trim(m.code)))>>
                           \o r.placeholders]
            ELSE LET r == IsolateCodeBlocks(Tail(s), n)
                 IN [text |-> <<Head(s)>> \o r.text,
                     placeholders |-> r.placeholders]

(* index.tsx: every fence of the escaped text is replaced in place. *)
RECURSIVE ReplaceCodeBlocks(_)
ReplaceCodeBlocks(s) ==
    IF IndexOfFrom(s, FenceMark, 1) = 0 THEN s
    ELSE LET m == FenceAt(s)
         IN IF m.ok
            THEN CodeBlock(m.lang, Trim(m.code)) \o ReplaceCodeBlocks(m.rest)
            ELSE <<Head(s)>> \o ReplaceCodeBlocks(Tail(s))

NoNewline(s) == \A i \in 1..Len(s) : s[i] # "\n"

(* Bold, replaced everywhere from left to right: two stars, the shortest  *)
(* newline-free text that is followed by two stars, two stars.            *)
RECURSIVE Bold(_)
Bold(s) ==
    IF IndexOfFrom(s, <<"*">>, 1) = 0 THEN s
    ELSE LET close == IF Len(s) >= 4 /\ s[1] = "*" /\ s[2] = "*"
                      THEN IndexOfFrom(s, <<"*", "*">>, 3)
                      ELSE 0
         IN IF close # 0 /\ NoNewline(SubSeq(s, 3, close - 1))
            THEN <<"<strong>">> \o SubSeq(s, 3, close - 1) \o <<"</strong>">>
                    \o Bold(SubSeq(s, close + 2, Len(s)))
            ELSE <<Head(s)>> \o Bold(Tail(s))

(* Italic: a star, the shortest newline-free text followed by a star,     *)
(* a star.                                                                 *)
RECURSIVE Italic(_)
Italic(s) ==
    IF IndexOfFrom(s, <<"*">>, 1) = 0 THEN s
    ELSE LET close == IF s[1] = "*" THEN IndexOfFrom(s, <<"*">>, 2) ELSE 0
         IN IF close # 0 /\ NoNewline(SubSeq(s, 2, close - 1))
            THEN <<"<em>">> \o SubSeq(s, 2, close - 1) \o <<"</em>">>
                    \o Italic(SubSeq(s, close + 1, Len(s)))
            ELSE <<Head(s)>> \o Italic(Tail(s))

(* Inline code: a backtick, one or more characters other than a backtick, *)
(* a backtick.                                                             *)
RECURSIVE InlineCode(_)
InlineCode(s) ==
    IF IndexOfFrom(s, <<Backtick>>, 1) = 0 THEN s
    ELSE LET close == IF s[1] = Backtick THEN IndexOfFrom(s, <<Backtick>>, 2) ELSE 0
         IN IF close > 2
            THEN <<"<code>">> \o SubSeq(s, 2, close - 1) \o <<"</code>">>
                    \o InlineCode(SubSeq(s, close + 1, Len(s)))
            ELSE <<Head(s)>> \o InlineCode(Tail(s))

(* Link: '[', one or more characters other than ']', ']', '(', one or     *)
(* more characters other than ')', ')'; the second group is the href.      *)
RECURSIVE Link(_)
Link(s) ==
    IF IndexOfFrom(s, <<"[">>, 1) = 0 THEN s
    ELSE LET rb == IF s[1] = "[" THEN IndexOfFrom(s, <<"]">>, 2) ELSE 0
             rp == IF rb > 2 /\ rb < Len(s) /\ s[rb + 1] = "("
                   THEN IndexOfFrom(s, <<")">>, rb + 2)
                   ELSE 0
         IN IF rp > rb + 2
            THEN <<"<a href=\"">> \o SubSeq(s, rb + 2, rp - 1)
                    \o <<"\" target=\"_blank\" rel=\"noopener noreferrer\">">>
                    \o SubSeq(s, 2, rb - 1) \o <<"</a>">>
                    \o Link(SubSeq(s, rp + 1, Len(s)))
            ELSE <<Head(s)>> \o Link(Tail(s))

(* part_000, step 4: every placeholder token is replaced by               *)
(* placeholders[index], which is the text "undefined" past the end.        *)
RestoreCodeBlocks(s, placeholders) ==
    IF \A i \in 1..Len(s) : ~IsPlaceholder(s[i]) THEN s
    ELSE Concat([i \in 1..Len(s) |->
        IF IsPlaceholder(s[i])
        THEN LET k == CHOOSE k \in DOMAIN PlaceholderTokens :
                         s[i] = PlaceholderTokens[k]
             IN IF k <= Len(placeholders) THEN placeholders[k]
                ELSE <<"undefined">>
        ELSE <<s[i]>>])

parseMarkdown(b, text) ==
    IF b = "index"
    THEN InlineCode(Italic(Bold(ReplaceCodeBlocks(escapeHTML(text)))))
    ELSE LET isolated == IsolateCodeBlocks(text, 0)
         IN RestoreCodeBlocks(
               Link(InlineCode(Italic(Bold(escapeHTML(isolated.text))))),
               isolated.placeholders)

(* The header processCodeBlocks of part_000 puts in a pre element (the     *)
(* language and the copy and expand buttons), and the button of index.tsx. *)
CodeHeader == "<div class=\"code-header\">"
CopyButton == "<button class=\"copy-button\">"

(* processCodeBlocks(container), html being the container's content:       *)
(* part_000 inserts the header before the code of every pre element,       *)
(* index.tsx appends the button to it.  A block written inside the href    *)
(* of a link (inAttr) is no element.  What hljs.highlightElement, a        *)
(* library, writes into the code is left out.                              *)
RECURSIVE processCodeBlocks(_, _, _)
processCodeBlocks(b, html, inAttr) ==
    IF \A i \in 1..Len(html) : html[i] \notin {"<pre>", "</pre>"} THEN html
    ELSE LET t == Head(html)
         IN IF inAttr
            THEN <<t>> \o processCodeBlocks(b, Tail(html),
                    t # "\" target=\"_blank\" rel=\"noopener noreferrer\">")
            ELSE IF t = "<a href=\""
            THEN <<t>> \o processCodeBlocks(b, Tail(html), TRUE)
            ELSE IF t = "<pre>" /\ b # "index"
            THEN <<t, CodeHeader>> \o processCodeBlocks(b, Tail(html), FALSE)
            ELSE IF t = "</pre>" /\ b = "index"
            THEN <<CopyButton, t>> \o processCodeBlocks(b, Tail(html), FALSE)
            ELSE <<t>> \o processCodeBlocks(b, Tail(html), FALSE)

----------------------------------------------------------------------------
(* A stored item is NoItem (getItem returns null) or the text written     *)
(* under the key, kept as [type, json]: the kind of JSON text it is        *)
(* ("array", "object", "null", or "invalid" for text JSON.parse rejects)   *)
(* and the value the text denotes.                                         *)
Null == [null |-> TRUE]

InvalidText == [type |-> "invalid", json |-> <<>>]

JSONstringify(v) == [type |-> "array", json |-> v]

(* JSON.parse of a text it accepts. *)
JSONparse(item) == item.json

(* JSON.parse throws a SyntaxError. *)
ParseThrows(item) == item.type = "invalid"

loadHistoryFromStorage(item) ==
    IF item = NoItem THEN <<>> ELSE JSONparse(item)

saveHistoryToStorage(h) == JSONstringify(h)

----------------------------------------------------------------------------
(* Settings.  Numbers are kept as their decimal text, with "NaN" and       *)
(* "null" for the two values parseInt and JSON can put in their place.     *)

DefaultSettings ==
    [model |-> "gemini-2.5-flash", temperature |-> "0.7",
     maxTokens |-> "1000", theme |-> "dark", keyboardShortcuts |-> TRUE]

(* What the user can leave in the max-tokens field. *)
MaxTokensInputs == {"", "500"}

parseInt(text) == IF text = "" THEN "NaN" ELSE text

(* JSON.stringify writes null for a NaN number. *)
JSONNumber(n) == IF n = "NaN" THEN "null" ELSE n

JSONstringifySettings(v) ==
    [type |-> "object",
     json |-> [v EXCEPT !.temperature = JSONNumber(@),
                        !.maxTokens = JSONNumber(@)]]

(* loadTheme then loadSettings on a fresh page: the settings object they   *)
(* leave behind, and whether one of them threw.  settings.theme of null,   *)
(* and .toString() of a null or missing temperature / maxTokens, throw a   *)
(* TypeError.                                                              *)
LoadSettings(item) ==
    IF item = NoItem THEN [threw |-> FALSE, settings |-> DefaultSettings]
    ELSE IF ParseThrows(item)
    THEN [threw |-> TRUE, settings |-> DefaultSettings]
    ELSE IF item.type # "object"
    THEN [threw |-> TRUE, settings |-> JSONparse(item)]
    ELSE LET v == JSONparse(item) IN
         [threw |-> (v.temperature = "null" \/ v.maxTokens = "null"),
          settings |-> v]

(* An element of a parsed collection that renderHistoryList can read. *)
IsSession(x) == "id" \in DOMAIN x

(* loadHistoryFromStorage then renderHistoryList on a fresh page: the      *)
(* collection they leave behind, and whether one of them threw (the        *)
(* spread of a non-array, session.id of a null element).                   *)
LoadHistory(item) ==
    IF item = NoItem THEN [threw |-> FALSE, chatHistory |-> <<>>]
    ELSE IF ParseThrows(item) THEN [threw |-> TRUE, chatHistory |-> <<>>]
    ELSE IF item.type # "array"
    THEN [threw |-> TRUE, chatHistory |-> JSONparse(item)]
    ELSE LET h == JSONparse(item) IN
         [threw |-> (\E i \in 1..Len(h) : ~IsSession(h[i])),
          chatHistory |-> h]

----------------------------------------------------------------------------
(* The view.  An element is [node, role, kind, raw, html]; html is what    *)
(* the element displays:                                                   *)
(*   kind "text"     appendMessage with a string: a text child carrying    *)
(*                   dataset.rawText = raw and innerHTML = html            *)
(*   kind "loading"  the placeholder with the loading dots                 *)
(*   kind "stream"   placeholder whose innerHTML was set to html by the    *)
(*                   chunk loop                                            *)
(*   kind "final"    as "stream", and dataset.rawText = raw is set on the  *)
(*                   content wrapper                                       *)
(*   kind "error"    placeholder whose textContent is the error text raw   *)
(* A message of part_000 is [id, role, text, timestamp, reactions,         *)
(* isBookmarked]: reactions is the count of the one emoji the page offers  *)
(* (0: no reactions property), isBookmarked FALSE stands for undefined     *)
(* too.  The scrape builds messages without either property.               *)

TextElement(b, node, role, raw) ==
    [node |-> node, role |-> role, kind |-> "text", raw |-> raw,
     html |-> processCodeBlocks(b, parseMarkdown(b, raw), FALSE)]

LoadingElement(node) ==
    [node |-> node, role |-> "model", kind |-> "loading", raw |-> <<>>,
     html |-> <<>>]

(* part_000: the text is read from the '.message-text' child, which only   *)
(* appendMessage-with-a-string creates.                                    *)
ScrapedTextEnhanced(el) ==
    IF el.kind = "text" THEN el.raw ELSE <<>>

(* The textContent of an element whose innerHTML is html: the tags and     *)
(* what stands inside a tag (the class attribute of a code block) are no   *)
(* text, and an entity is read back as its character.                      *)
RECURSIVE TextContent(_, _)
TextContent(html, inTag) ==
    IF html = <<>> THEN <<>>
    ELSE LET t == Head(html)
         IN IF inTag THEN TextContent(Tail(html), t # " hljs\">")
            ELSE IF t = "<code class=\"language-"
            THEN TextContent(Tail(html), TRUE)
            ELSE IF t \in {"<pre>", "</pre>", "<strong>", "</strong>", "<em>",
                           "</em>", "<code>", "</code>"}
            THEN TextContent(Tail(html), FALSE)
            ELSE <<IF t = "&lt;" THEN "<" ELSE IF t = "&gt;" THEN ">" ELSE t>>
                    \o TextContent(Tail(html), FALSE)

(* index.tsx: the text is read from '.message-content' itself: its         *)
(* dataset.rawText, else its textContent.                                  *)
ScrapedTextIndex(el) ==
    CASE el.kind = "text"    -> el.raw
      [] el.kind = "final"   -> el.raw
      [] el.kind = "error"   -> el.raw
      [] el.kind = "stream"  -> TextContent(el.html, FALSE)
      [] el.kind = "loading" -> <<>>

RECURSIVE getMessagesFromDOM(_, _, _)
getMessagesFromDOM(v, b, t) ==
    IF v = <<>> THEN <<>>
    ELSE LET el == Head(v)
             text == IF b = "index" THEN ScrapedTextIndex(el)
                     ELSE ScrapedTextEnhanced(el)
             msg == IF b = "index"
                    THEN [role |-> el.role, text |-> text]
                    ELSE [id |-> el.node, role |-> el.role, text |-> text,
                          timestamp |-> t, reactions |-> 0,
                          isBookmarked |-> FALSE]
         IN (IF text # <<>> THEN <<msg>> ELSE <<>>)
            \o getMessagesFromDOM(Tail(v), b, t)

----------------------------------------------------------------------------
(* Session store *)

NewSession(b, id, title, messages, t) ==
    IF b = "index"
    THEN [id |-> id, title |-> title, messages |-> messages]
    ELSE [id |-> id, title |-> title, messages |-> messages,
          threads |-> <<>>, createdAt |-> t, updatedAt |-> t,
          isPinned |-> FALSE, isArchived |-> FALSE]

(* Faulty variant: the title is derived again on every save. *)
UpdateSessionRetitled(b, s, messages, t) ==
    [s EXCEPT !.messages = messages,
              !.title = TitleOf(messages[Len(messages)].text)]

UpdateSession(b, s, messages, t) ==
    IF b = "index"
    THEN [s EXCEPT !.messages = messages]
    ELSE [s EXCEPT !.messages = messages, !.updatedAt = t]

(* Faulty variant: an updated session is moved to the head. *)
UpsertMovesToHead(prompt, messages, h, cur, b, t) ==
    IF cur # NoChat /\ Find(h, cur) # 0
    THEN LET i == Find(h, cur)
             h2 == <<UpdateSession(b, h[i], messages, t)>>
                   \o SubSeq(h, 1, i - 1) \o SubSeq(h, i + 1, Len(h))
         IN [chatHistory |-> h2, currentChatId |-> cur,
             storage |-> saveHistoryToStorage(h2)]
    ELSE LET h2 == <<NewSession(b, t, TitleOf(prompt), messages, t)>> \o h
         IN [chatHistory |-> h2, currentChatId |-> t,
             storage |-> saveHistoryToStorage(h2)]

(* The two branches of saveCurrentChat after its empty-list return:       *)
(* update the current session, or mint chat_<t> and unshift a new one;     *)
(* then saveHistoryToStorage.                                              *)
Upsert(prompt, messages, h, cur, b, t) ==
    IF cur # NoChat
    THEN LET i == Find(h, cur)
             h2 == IF i # 0
                   THEN [h EXCEPT ![i] = UpdateSession(b, h[i], messages, t)]
                   ELSE h
         IN [chatHistory |-> h2, currentChatId |-> cur,
             storage |-> saveHistoryToStorage(h2)]
    ELSE LET h2 == <<NewSession(b, t, TitleOf(prompt), messages, t)>> \o h
         IN [chatHistory |-> h2, currentChatId |-> t,
             storage |-> saveHistoryToStorage(h2)]

(* Faulty variant: the `messages.length === 0` return is missing. *)
saveCurrentChatUnguarded(prompt, v, h, cur, st, b, t) ==
    Upsert(prompt, getMessagesFromDOM(v, b, t), h, cur, b, t)

(* saveCurrentChat(prompt): the collection, current id and stored item it  *)
(* leaves behind, given the view v, collection h, current id cur, stored   *)
(* item st, build b and time t.                                            *)
saveCurrentChat(prompt, v, h, cur, st, b, t) ==
    LET messages == getMessagesFromDOM(v, b, t) IN
    IF messages = <<>>
    THEN [chatHistory |-> h, currentChatId |-> cur, storage |-> st]
    ELSE Upsert(prompt, messages, h, cur, b, t)

(* The elements loadChatSession appends for a stored message list. *)
SessionElements(b, messages) ==
    [i \in 1..Len(messages) |->
        TextElement(b, IF b = "index" THEN 0 ELSE messages[i].id,
                    messages[i].role, messages[i].text)]

(* textContent = raw on the element whose node is n (if it is still in    *)
(* the view).                                                              *)
SetContent(v, n, kind, raw) ==
    [i \in 1..Len(v) |->
        IF v[i].node = n
        THEN [v[i] EXCEPT !.kind = kind, !.raw = raw, !.html = raw]
        ELSE v[i]]

(* innerHTML = html on the element whose node is n. *)
SetInnerHTML(v, n, html) ==
    [i \in 1..Len(v) |->
        IF v[i].node = n THEN [v[i] EXCEPT !.kind = "stream", !.html = html]
        ELSE v[i]]

(* dataset.rawText = fullResponse on the placeholder after the loop. *)
SetRawText(v, n, raw) ==
    [i \in 1..Len(v) |->
        IF v[i].node = n /\ v[i].kind = "stream"
        THEN [v[i] EXCEPT !.kind = "final", !.raw = raw]
        ELSE v[i]]

(* processCodeBlocks(loadingIndicator) after the loop. *)
Decorated(v, n, b) ==
    [i \in 1..Len(v) |->
        IF v[i].node = n /\ v[i].kind = "final"
        THEN [v[i] EXCEPT !.html = processCodeBlocks(b, @, FALSE)]
        ELSE v[i]]

(* chatContainer.querySelector('.model-message:last-of-type')?.remove():   *)
(* :last-of-type selects by tag, every message is a div, so only a model   *)
(* message that is the last child matches.                                 *)
RemoveLastModel(v) ==
    IF v # <<>> /\ v[Len(v)].role = "model"
    THEN SubSeq(v, 1, Len(v) - 1)
    ELSE v

(* Another handler ran while a turn was suspended (history): the turn is   *)
(* no longer undisturbed and its snapshot is dropped.                      *)
NoSnapshot == [dropped |-> TRUE]

Touched(hs) == { [h EXCEPT !.clean = FALSE, !.snap = NoSnapshot] : h \in hs }

Snapshot == [chatHistory |-> chatHistory, storage |-> storage,
             currentChatId |-> currentChatId]

----------------------------------------------------------------------------
Init ==
    /\ build = "enhanced"
    /\ now = 1
    /\ nextId = 1
    /\ chatHistory = <<>>
    /\ storage = NoItem
    /\ currentChatId = NoChat
    /\ isAwaitingResponse = FALSE
    /\ view = <<>>
    /\ handlers = {}
    /\ edits = 0
    /\ settings = DefaultSettings
    /\ settingsItem = NoItem
    /\ lastOp = [op |-> "initializeApp", threw |-> FALSE]

InitIndex ==
    /\ build = "index"
    /\ now = 1
    /\ nextId = 1
    /\ chatHistory = <<>>
    /\ storage = NoItem
    /\ currentChatId = NoChat
    /\ isAwaitingResponse = FALSE
    /\ view = <<>>
    /\ handlers = {}
    /\ edits = 0
    /\ settings = DefaultSettings
    /\ settingsItem = NoItem
    /\ lastOp = [op |-> "initializeApp", threw |-> FALSE]

----------------------------------------------------------------------------
(* Faulty variant: the input is not trimmed before the emptiness test. *)
SubmitRejectedUntrimmed(busy, input) == busy \/ input = <<>>

(* Faulty variant: the busy check is missing. *)
SubmitRejectedNotBusyChecked(busy, input) == Trim(input) = <<>>

(* The guard of handleFormSubmit: busy, or nothing but whitespace typed. *)
SubmitRejected(busy, input) == busy \/ Trim(input) = <<>>

handleFormSubmit(input) ==
    IF SubmitRejected(isAwaitingResponse, input)
    THEN /\ lastOp' = [op |-> "handleFormSubmit", prompt |-> Trim(input),
                       accepted |-> FALSE]
         /\ UNCHANGED <<edits, build, prefs, now, nextId, chatHistory, storage,
                        currentChatId, isAwaitingResponse, view, handlers>>
    ELSE /\ nextId + 1 <= MaxIds
         /\ isAwaitingResponse' = TRUE
         /\ view' = view \o <<TextElement(build, nextId, "user", Trim(input)),
                              LoadingElement(nextId + 1)>>
         /\ nextId' = nextId + 2
         /\ handlers' = handlers \cup
               {[kind |-> "send", prompt |-> Trim(input), pc |-> "opening",
                 fullResponse |-> <<>>, li |-> nextId + 1,
                 chunks |-> <<>>, clean |-> TRUE, snap |-> Snapshot]}
         /\ lastOp' = [op |-> "handleFormSubmit", prompt |-> Trim(input),
                       accepted |-> TRUE]
         /\ UNCHANGED <<edits, build, prefs, now, chatHistory, storage, currentChatId>>

(* Faulty variant: the busy check is missing. *)
RegenerateNeverRejected(busy) == FALSE

(* The guard of handleRegenerate. *)
RegenerateRejected(busy) == busy

(* index.tsx binds handleRegenerate to the button of the last model        *)
(* message; part_000 defines it and binds it to no control.  It is an      *)
(* operation of both builds here.                                          *)
handleRegenerate ==
    LET messages == getMessagesFromDOM(view, build, now)
        users == SelectSeq(messages, LAMBDA m : m.role = "user")
    IN
    IF RegenerateRejected(isAwaitingResponse) \/ users = <<>>
    THEN /\ lastOp' = [op |-> "handleRegenerate", accepted |-> FALSE]
         /\ UNCHANGED <<edits, build, prefs, now, nextId, chatHistory, storage,
                        currentChatId, isAwaitingResponse, view, handlers>>
    ELSE /\ nextId <= MaxIds
         /\ isAwaitingResponse' = TRUE
         /\ view' = RemoveLastModel(view) \o <<LoadingElement(nextId)>>
         /\ nextId' = nextId + 1
         /\ handlers' = handlers \cup
               {[kind |-> "regenerate", prompt |-> users[Len(users)].text,
                 pc |-> "opening", fullResponse |-> <<>>, li |-> nextId,
                 chunks |-> <<>>, clean |-> TRUE, snap |-> Snapshot]}
         /\ lastOp' = [op |-> "handleRegenerate", accepted |-> TRUE]
         /\ UNCHANGED <<edits, build, prefs, now, chatHistory, storage, currentChatId>>

FailureText(kind) ==
    IF kind = "regenerate" THEN ErrorTextRegenerate ELSE ErrorText

(* Faulty variant: the catch block leaves the placeholder as it is. *)
CatchBlockKeepsPartial(v, n, kind) == v

(* The catch block: loadingIndicator.textContent = <the error text>. *)
CatchBlock(v, n, kind) == SetContent(v, n, "error", FailureText(kind))

(* Faulty variant: the flag is not reset. *)
FinallyKeepsBusy(busy) == busy

(* The finally block: isAwaitingResponse = false. *)
Finally(busy) == FALSE

(* chat.sendMessageStream resolves with the stream. *)
StreamOpen(h) ==
    /\ h.pc = "opening"
    /\ handlers' = (handlers \ {h}) \cup {[h EXCEPT !.pc = "streaming"]}
    /\ lastOp' = [op |-> "streamOpen"]
    /\ UNCHANGED <<edits, build, prefs, now, nextId, chatHistory, storage, currentChatId,
                   isAwaitingResponse, view>>

(* Faulty variant: only the chunk just received is rendered. *)
RenderedLastChunkOnly(b, fullResponse, c) == parseMarkdown(b, c)

(* loadingIndicator.innerHTML = parseMarkdown(fullResponse), fullResponse  *)
(* holding the chunk c just appended.                                      *)
Rendered(b, fullResponse, c) == parseMarkdown(b, fullResponse)

(* One iteration of the for-await loop, the chunk text being c. *)
StreamChunkOf(h, c) ==
    /\ h.pc = "streaming"
    /\ LET full == h.fullResponse \o c
       IN
       /\ view' = SetInnerHTML(view, h.li, Rendered(build, full, c))
       /\ handlers' = (handlers \ {h}) \cup
             {[h EXCEPT !.fullResponse = full, !.chunks = Append(@, c)]}
    /\ lastOp' = [op |-> "streamChunk"]
    /\ UNCHANGED <<edits, build, prefs, now, nextId, chatHistory, storage, currentChatId,
                   isAwaitingResponse>>

(* The stream of a turn delivers the scripted chunks. *)
StreamChunk(h) ==
    /\ Len(h.chunks) < MaxChunks
    /\ StreamChunkOf(h, ChunkAt(Len(h.chunks) + 1))

(* The loop ends: store the raw text, save, and the finally block. *)
StreamEnd(h, t) ==
    /\ h.pc = "streaming"
    /\ LET v2 == Decorated(SetRawText(view, h.li, h.fullResponse), h.li, build)
           r == saveCurrentChat(h.prompt, v2, chatHistory, currentChatId,
                                storage, build, t)
       IN /\ view' = v2
          /\ chatHistory' = r.chatHistory
          /\ currentChatId' = r.currentChatId
          /\ storage' = r.storage
    /\ isAwaitingResponse' = Finally(isAwaitingResponse)
    /\ handlers' = handlers \ {h}
    /\ now' = t
    /\ lastOp' = [op |-> "streamEnd", turn |-> h]
    /\ UNCHANGED <<edits, build, prefs, nextId>>

(* The remote call raises: the catch block and the finally block. *)
StreamFail(h) ==
    /\ h.pc \in {"opening", "streaming"}
    /\ view' = CatchBlock(view, h.li, h.kind)
    /\ isAwaitingResponse' = Finally(isAwaitingResponse)
    /\ handlers' = handlers \ {h}
    /\ lastOp' = [op |-> "streamFail", turn |-> h]
    /\ UNCHANGED <<edits, build, prefs, now, nextId, chatHistory, storage, currentChatId>>

loadChatSession(chatId) ==
    /\ Find(chatHistory, chatId) # 0
    /\ currentChatId' = chatId
    /\ view' = SessionElements(build,
                   chatHistory[Find(chatHistory, chatId)].messages)
    /\ handlers' = Touched(handlers)
    /\ lastOp' = [op |-> "loadChatSession"]
    /\ UNCHANGED <<edits, build, prefs, now, nextId, chatHistory, storage,
                   isAwaitingResponse>>

startNewChat ==
    /\ currentChatId' = NoChat
    /\ view' = <<>>
    /\ handlers' = Touched(handlers)
    /\ lastOp' = [op |-> "startNewChat"]
    /\ UNCHANGED <<edits, build, prefs, now, nextId, chatHistory, storage,
                   isAwaitingResponse>>

(* initializeApp on a page (re)load: the suspended handlers die with the   *)
(* old page and every module variable starts from its initializer; then    *)
(* loadTheme, loadSettings (part_000 only), loadHistoryFromStorage,        *)
(* renderHistoryList, and loadChatSession of the first session or          *)
(* startNewChat.  An exception leaves the rest undone.                     *)
initializeApp ==
    LET s == IF build = "enhanced" THEN LoadSettings(settingsItem)
             ELSE [threw |-> FALSE, settings |-> DefaultSettings]
        h == IF s.threw THEN [threw |-> TRUE, chatHistory |-> <<>>]
             ELSE LoadHistory(storage)
    IN
    /\ settings' = s.settings
    /\ chatHistory' = h.chatHistory
    /\ IF h.threw
       THEN /\ currentChatId' = NoChat
            /\ view' = <<>>
       ELSE /\ currentChatId' = IF h.chatHistory # <<>>
                                 THEN h.chatHistory[1].id ELSE NoChat
            /\ view' = IF h.chatHistory # <<>>
                       THEN SessionElements(build, h.chatHistory[1].messages)
                       ELSE <<>>
    /\ isAwaitingResponse' = FALSE
    /\ handlers' = {}
    /\ lastOp' = [op |-> "initializeApp", threw |-> h.threw]
    /\ UNCHANGED <<edits, build, settingsItem, now, nextId, storage>>

(* saveSettings: the form is written to the settings object and stored. *)
saveSettings(maxTokensText) ==
    /\ build = "enhanced"
    /\ settings' = [settings EXCEPT !.maxTokens = parseInt(maxTokensText)]
    /\ settingsItem' = JSONstringifySettings(settings')
    /\ handlers' = Touched(handlers)
    /\ lastOp' = [op |-> "saveSettings"]
    /\ UNCHANGED <<edits, build, now, nextId, chatHistory, storage,
                   currentChatId, isAwaitingResponse, view>>

----------------------------------------------------------------------------
(* Sidebar and shortcut handlers that only part_000 has.  chatId is the    *)
(* data-chat-id of the context-menu target, an item of the rendered list.  *)

Renamed(h, chatId, newTitle, t) ==
    LET i == Find(h, chatId) IN
    IF i # 0 /\ Trim(newTitle) # <<>>
    THEN [h EXCEPT ![i] = [@ EXCEPT !.title = Trim(newTitle), !.updatedAt = t]]
    ELSE h

renameChat(chatId, newTitle, t) ==
    /\ build = "enhanced"
    /\ edits < MaxEdits
    /\ edits' = edits + 1
    /\ chatHistory' = Renamed(chatHistory, chatId, newTitle, t)
    /\ storage' = IF Trim(newTitle) # <<>>
                  THEN saveHistoryToStorage(chatHistory')
                  ELSE storage
    /\ handlers' = Touched(handlers)
    /\ now' = t
    /\ lastOp' = [op |-> "renameChat", newTitle |-> Trim(newTitle)]
    /\ UNCHANGED <<build, prefs, nextId, currentChatId, isAwaitingResponse, view>>

(* chatHistory.filter(s => s.id !== chatId) *)
Without(h, chatId) == SelectSeq(h, LAMBDA s : s.id # chatId)

(* Faulty variant: the deleted chat stays the current one. *)
CurrentAfterDeleteKept(cur, chatId) == cur

(* if (currentChatId === chatId) startNewChat(); *)
CurrentAfterDelete(cur, chatId) == IF cur = chatId THEN NoChat ELSE cur

deleteChat(chatId, confirmed) ==
    /\ build = "enhanced"
    /\ edits < MaxEdits
    /\ edits' = edits + 1
    /\ IF confirmed
       THEN /\ chatHistory' = Without(chatHistory, chatId)
            /\ storage' = saveHistoryToStorage(chatHistory')
            /\ currentChatId' = CurrentAfterDelete(currentChatId, chatId)
            /\ view' = IF currentChatId = chatId THEN <<>> ELSE view
       ELSE UNCHANGED <<chatHistory, storage, currentChatId, view>>
    /\ handlers' = Touched(handlers)
    /\ lastOp' = [op |-> "deleteChat", chatId |-> chatId,
                  confirmed |-> confirmed,
                  wasCurrent |-> (currentChatId = chatId)]
    /\ UNCHANGED <<build, prefs, now, nextId, isAwaitingResponse>>

Toggled(h, chatId, field, t) ==
    LET i == Find(h, chatId) IN
    IF i = 0 THEN h
    ELSE IF field = "isPinned"
    THEN [h EXCEPT ![i] = [@ EXCEPT !.isPinned = ~@, !.updatedAt = t]]
    ELSE [h EXCEPT ![i] = [@ EXCEPT !.isArchived = ~@, !.updatedAt = t]]

(* togglePinChat and toggleArchiveChat are defined in part_000 and bound   *)
(* to no control; they are operations here all the same.                   *)
togglePinChat(chatId, t) ==
    /\ build = "enhanced"
    /\ edits < MaxEdits
    /\ edits' = edits + 1
    /\ chatHistory' = Toggled(chatHistory, chatId, "isPinned", t)
    /\ storage' = saveHistoryToStorage(chatHistory')
    /\ handlers' = Touched(handlers)
    /\ now' = t
    /\ lastOp' = [op |-> "togglePinChat"]
    /\ UNCHANGED <<build, prefs, nextId, currentChatId, isAwaitingResponse, view>>

toggleArchiveChat(chatId, t) ==
    /\ build = "enhanced"
    /\ edits < MaxEdits
    /\ edits' = edits + 1
    /\ chatHistory' = Toggled(chatHistory, chatId, "isArchived", t)
    /\ storage' = saveHistoryToStorage(chatHistory')
    /\ handlers' = Touched(handlers)
    /\ now' = t
    /\ lastOp' = [op |-> "toggleArchiveChat"]
    /\ UNCHANGED <<build, prefs, nextId, currentChatId, isAwaitingResponse, view>>

toggleBookmarkChat(t) ==
    /\ build = "enhanced"
    /\ edits < MaxEdits
    /\ edits' = edits + 1
    /\ currentChatId # NoChat
    /\ Find(chatHistory, currentChatId) # 0
    /\ chatHistory' = Toggled(chatHistory, currentChatId, "isPinned", t)
    /\ storage' = saveHistoryToStorage(chatHistory')
    /\ handlers' = Touched(handlers)
    /\ now' = t
    /\ lastOp' = [op |-> "toggleBookmarkChat"]
    /\ UNCHANGED <<build, prefs, nextId, currentChatId, isAwaitingResponse, view>>

(* handleKeyboardShortcuts, Ctrl/Cmd+S *)
handleKeyboardShortcuts(input, t) ==
    /\ build = "enhanced"
    /\ edits < MaxEdits
    /\ edits' = edits + 1
    /\ currentChatId # NoChat
    /\ LET r == saveCurrentChat(input, view, chatHistory, currentChatId,
                                storage, build, t)
       IN /\ chatHistory' = r.chatHistory
          /\ currentChatId' = r.currentChatId
          /\ storage' = r.storage
    /\ handlers' = Touched(handlers)
    /\ now' = t
    /\ lastOp' = [op |-> "handleKeyboardShortcuts"]
    /\ UNCHANGED <<build, prefs, nextId, isAwaitingResponse, view>>

----------------------------------------------------------------------------
(* Message buttons of part_000.  messageId is the id appendMessage gave    *)
(* the element whose button is clicked; the buttons live in the content    *)
(* wrapper and are gone once a placeholder's content is overwritten.       *)

ButtonIds == { view[i].node : i \in { j \in 1..Len(view) :
                                         view[j].kind \in {"text", "loading"} } }

FindMessage(ms, messageId) ==
    IF \E i \in 1..Len(ms) : ms[i].id = messageId
    THEN CHOOSE i \in 1..Len(ms) :
            ms[i].id = messageId /\ \A j \in 1..(i - 1) : ms[j].id # messageId
    ELSE 0

(* The session and message a message button acts on: <<0, 0>> when one of  *)
(* the early returns is taken.                                             *)
Target(h, cur, messageId) ==
    IF cur = NoChat \/ Find(h, cur) = 0 THEN <<0, 0>>
    ELSE IF FindMessage(h[Find(h, cur)].messages, messageId) = 0 THEN <<0, 0>>
    ELSE <<Find(h, cur), FindMessage(h[Find(h, cur)].messages, messageId)>>

toggleReaction(messageId) ==
    /\ build = "enhanced"
    /\ edits < MaxEdits
    /\ edits' = edits + 1
    /\ LET tg == Target(chatHistory, currentChatId, messageId) IN
       IF tg = <<0, 0>>
       THEN UNCHANGED <<chatHistory, storage>>
       ELSE /\ chatHistory' = [chatHistory EXCEPT
                                  ![tg[1]].messages[tg[2]].reactions = @ + 1]
            /\ storage' = saveHistoryToStorage(chatHistory')
    /\ handlers' = Touched(handlers)
    /\ lastOp' = [op |-> "toggleReaction"]
    /\ UNCHANGED <<build, prefs, now, nextId, currentChatId, isAwaitingResponse, view>>

toggleBookmark(messageId) ==
    /\ build = "enhanced"
    /\ edits < MaxEdits
    /\ edits' = edits + 1
    /\ LET tg == Target(chatHistory, currentChatId, messageId) IN
       IF tg = <<0, 0>>
       THEN UNCHANGED <<chatHistory, storage>>
       ELSE /\ chatHistory' = [chatHistory EXCEPT
                                  ![tg[1]].messages[tg[2]].isBookmarked = ~@]
            /\ storage' = saveHistoryToStorage(chatHistory')
    /\ handlers' = Touched(handlers)
    /\ lastOp' = [op |-> "toggleBookmark"]
    /\ UNCHANGED <<build, prefs, now, nextId, currentChatId, isAwaitingResponse, view>>

(* replyToMessage pushes a thread onto the session and returns without     *)
(* calling saveHistoryToStorage.                                           *)
replyToMessage(messageId) ==
    /\ build = "enhanced"
    /\ edits < MaxEdits
    /\ edits' = edits + 1
    /\ LET tg == Target(chatHistory, currentChatId, messageId) IN
       IF tg = <<0, 0>>
       THEN UNCHANGED <<chatHistory, nextId>>
       ELSE /\ nextId <= MaxIds
            /\ chatHistory' = [chatHistory EXCEPT ![tg[1]].threads =
                   Append(@, [id |-> nextId, parentMessageId |-> messageId,
                              messages |-> <<>>])]
            /\ nextId' = nextId + 1
    /\ handlers' = Touched(handlers)
    /\ lastOp' = [op |-> "replyToMessage"]
    /\ UNCHANGED <<build, prefs, now, storage, currentChatId, isAwaitingResponse, view>>

Next ==
    \/ \E input \in Inputs : handleFormSubmit(input)
    \/ handleRegenerate
    \/ \E h \in handlers : StreamOpen(h)
    \/ \E h \in handlers : StreamChunk(h)
    \/ \E h \in handlers : \E t \in Times : StreamEnd(h, t)
    \/ \E h \in handlers : StreamFail(h)
    \/ \E chatId \in Ids(chatHistory) : loadChatSession(chatId)
    \/ startNewChat
    \/ initializeApp
    \/ \E chatId \in Ids(chatHistory) : \E title \in TitleInputs :
          \E t \in Times : renameChat(chatId, title, t)
    \/ \E chatId \in Ids(chatHistory) : \E c \in BOOLEAN :
          deleteChat(chatId, c)
    \/ \E chatId \in Ids(chatHistory) : \E t \in Times :
          togglePinChat(chatId, t)
    \/ \E chatId \in Ids(chatHistory) : \E t \in Times :
          toggleArchiveChat(chatId, t)
    \/ \E t \in Times : toggleBookmarkChat(t)
    \/ \E t \in Times : handleKeyboardShortcuts(<<>>, t)
    \/ \E messageId \in ButtonIds : toggleReaction(messageId)
    \/ \E messageId \in ButtonIds : toggleBookmark(messageId)
    \/ \E messageId \in ButtonIds : replyToMessage(messageId)

Spec == Init /\ [][Next]_vars

(* The handlers every generation of the script has. *)
NextTurn ==
    \/ \E input \in Inputs : handleFormSubmit(input)
    \/ handleRegenerate
    \/ \E h \in handlers : StreamOpen(h)
    \/ \E h \in handlers : StreamChunk(h)
    \/ \E h \in handlers : \E t \in Times : StreamEnd(h, t)
    \/ \E h \in handlers : StreamFail(h)
    \/ \E chatId \in Ids(chatHistory) : loadChatSession(chatId)
    \/ startNewChat
    \/ initializeApp

SpecIndex == InitIndex /\ [][NextTurn]_vars

----------------------------------------------------------------------------
(* Page load over whatever localStorage holds: texts left by this page, by *)
(* an earlier generation of it, by another script of the origin or by the  *)
(* user.                                                                   *)

StoredHistoryItems ==
    << NoItem, InvalidText, [type |-> "null", json |-> Null],
       [type |-> "array", json |-> <<Null>>], JSONstringify(<<>>) >>

StoredSettingsItems ==
    << NoItem, InvalidText, [type |-> "null", json |-> Null],
       JSONstringifySettings([DefaultSettings EXCEPT !.theme = "light"]) >>

(* The script has run its module-level initializers and is about to call   *)
(* initializeApp().                                                        *)
InitStartup ==
    /\ build = "enhanced"
    /\ now = 1
    /\ nextId = 1
    /\ chatHistory = <<>>
    /\ \E i \in DOMAIN StoredHistoryItems : storage = StoredHistoryItems[i]
    /\ currentChatId = NoChat
    /\ isAwaitingResponse = FALSE
    /\ view = <<>>
    /\ handlers = {}
    /\ edits = 0
    /\ settings = DefaultSettings
    /\ \E i \in DOMAIN StoredSettingsItems :
          settingsItem = StoredSettingsItems[i]
    /\ lastOp = [op |-> "script"]

(* initializeApp returned: the listeners are bound. *)
Loaded == lastOp.op # "script" /\ ~(lastOp.op = "initializeApp" /\ lastOp.threw)

NextStartup ==
    \/ initializeApp
    \/ Loaded /\ \E text \in MaxTokensInputs : saveSettings(text)
    \/ Loaded /\ \E input \in Inputs : handleFormSubmit(input)
    \/ Loaded /\ \E h \in handlers : StreamOpen(h)
    \/ Loaded /\ \E h \in handlers : StreamChunk(h)
    \/ Loaded /\ \E h \in handlers : \E t \in Times : StreamEnd(h, t)
    \/ Loaded /\ \E h \in handlers : StreamFail(h)

SpecStartup == InitStartup /\ [][NextStartup]_vars

----------------------------------------------------------------------------
(* Sends with prompts around the title cut. *)

Letters == <<"a", "b", "c", "d", "e", "f", "g">>

LongPrompt(n) == [i \in 1..n |-> Letters[((i - 1) % Len(Letters)) + 1]]

PromptLengths == {10, 30, 31, MaxPromptLen}

TitlePrompts ==
    { LongPrompt(n) : n \in PromptLengths } \cup { <<" ">> \o LongPrompt(30) }

NextTitle ==
    \/ \E input \in TitlePrompts : handleFormSubmit(input)
    \/ \E h \in handlers : StreamOpen(h)
    \/ \E h \in handlers : StreamChunk(h)
    \/ \E h \in handlers : \E t \in Times : StreamEnd(h, t)
    \/ \E h \in handlers : StreamFail(h)
    \/ startNewChat

SpecTitle == Init /\ [][NextTitle]_vars

----------------------------------------------------------------------------
(* The first turn of a page of either build, the stream delivering any     *)
(* text made of markdown pieces, cut into chunks at any piece boundary.    *)

MaxPieces == 5

MarkdownPieces ==
    { FenceMark, <<"\n">>, <<"<", "b", ">">>, <<"*", "*", "a", "*", "*">>,
      <<"*">>, <<Backtick>>, <<"a">>, <<"[", "a", "]", "(">>, <<")">> }

InitMarkdown ==
    /\ build \in {"enhanced", "index"}
    /\ now = 1
    /\ nextId = 1
    /\ chatHistory = <<>>
    /\ storage = NoItem
    /\ currentChatId = NoChat
    /\ isAwaitingResponse = FALSE
    /\ view = <<>>
    /\ handlers = {}
    /\ edits = 0
    /\ settings = DefaultSettings
    /\ settingsItem = NoItem
    /\ lastOp = [op |-> "initializeApp", threw |-> FALSE]

NextMarkdown ==
    \/ view = <<>> /\ handleFormSubmit(<<"a">>)
    \/ \E h \in handlers : StreamOpen(h)
    \/ \E h \in handlers : \E c \in MarkdownPieces :
          Len(h.chunks) < MaxPieces /\ StreamChunkOf(h, c)
    \/ \E h \in handlers : StreamEnd(h, now)
    \/ \E h \in handlers : StreamFail(h)

SpecMarkdown == InitMarkdown /\ [][NextMarkdown]_vars

----------------------------------------------------------------------------
(* The first turn of a page of part_000, the stream delivering fences and  *)
(* the text of a placeholder token.                                        *)

MaxPlaceholderPieces == 7

PlaceholderPieces ==
    { FenceMark, <<"\n">>, <<"a">>, <<PlaceholderTokens[1]>> }

NextPlaceholder ==
    \/ view = <<>> /\ handleFormSubmit(<<"a">>)
    \/ \E h \in handlers : StreamOpen(h)
    \/ \E h \in handlers : \E c \in PlaceholderPieces :
          Len(h.chunks) < MaxPlaceholderPieces /\ StreamChunkOf(h, c)
    \/ \E h \in handlers : StreamEnd(h, now)
    \/ \E h \in handlers : StreamFail(h)

SpecPlaceholder == Init /\ [][NextPlaceholder]_vars

----------------------------------------------------------------------------
(* A page of index.tsx opened on a stored session of one exchange (what    *)
(* initializeApp shows after loading it), then sends and regenerations.    *)

StoredExchange ==
    <<NewSession("index", 1, <<"a">>,
                 <<[role |-> "user", text |-> <<"a">>],
                   [role |-> "model", text |-> <<"x">>]>>, 1)>>

InitRegenerate ==
    /\ build = "index"
    /\ now = 1
    /\ nextId = 1
    /\ chatHistory = StoredExchange
    /\ storage = saveHistoryToStorage(StoredExchange)
    /\ currentChatId = StoredExchange[1].id
    /\ isAwaitingResponse = FALSE
    /\ view = SessionElements("index", StoredExchange[1].messages)
    /\ handlers = {}
    /\ edits = 0
    /\ settings = DefaultSettings
    /\ settingsItem = NoItem
    /\ lastOp = [op |-> "initializeApp", threw |-> FALSE]

NextRegenerate ==
    \/ \E input \in Inputs : handleFormSubmit(input)
    \/ handleRegenerate
    \/ \E h \in handlers : StreamOpen(h)
    \/ \E h \in handlers : StreamChunk(h)
    \/ \E h \in handlers : \E t \in Times : StreamEnd(h, t)
    \/ \E h \in handlers : StreamFail(h)

SpecRegenerate == InitRegenerate /\ [][NextRegenerate]_vars

----------------------------------------------------------------------------
(* Turns, navigation and deletions of part_000. *)

NextDelete ==
    \/ handleFormSubmit(<<"a">>)
    \/ \E h \in handlers : StreamOpen(h)
    \/ \E h \in handlers : StreamChunk(h)
    \/ \E h \in handlers : \E t \in Times : StreamEnd(h, t)
    \/ \E h \in handlers : StreamFail(h)
    \/ \E chatId \in Ids(chatHistory) : loadChatSession(chatId)
    \/ startNewChat
    \/ \E chatId \in Ids(chatHistory) : \E c \in BOOLEAN :
          deleteChat(chatId, c)

SpecDelete == Init /\ [][NextDelete]_vars

----------------------------------------------------------------------------
(* The sidebar.  updatedAt holds the toISOString text of a clock reading,  *)
(* kept here as the reading; getTime is the reading new Date(text) gives   *)
(* back.                                                                   *)
getTime(iso) == iso

(* Faulty variant: oldest first. *)
CompareChatsOldestFirst(a, b) ==
    IF a.isPinned /\ ~b.isPinned THEN -1
    ELSE IF ~a.isPinned /\ b.isPinned THEN 1
    ELSE getTime(a.updatedAt) - getTime(b.updatedAt)

(* The comparator of renderHistoryList. *)
CompareChats(a, b) ==
    IF a.isPinned /\ ~b.isPinned THEN -1
    ELSE IF ~a.isPinned /\ b.isPinned THEN 1
    ELSE getTime(b.updatedAt) - getTime(a.updatedAt)

(* Array.prototype.sort is stable: x goes behind every element of the      *)
(* sorted s that does not compare greater than it.                         *)
RECURSIVE InsertSorted(_, _)
InsertSorted(s, x) ==
    IF s = <<>> THEN <<x>>
    ELSE IF CompareChats(Head(s), x) <= 0
    THEN <<Head(s)>> \o InsertSorted(Tail(s), x)
    ELSE <<x>> \o s

RECURSIVE SortChats(_)
SortChats(h) ==
    IF h = <<>> THEN <<>>
    ELSE InsertSorted(SortChats(SubSeq(h, 1, Len(h) - 1)), h[Len(h)])

(* One entry per session of sortedChats, in that order, each in the list   *)
(* its flags select.                                                       *)
renderHistoryList(h) ==
    LET sortedChats == SortChats(h)
        InPinned(s) == s.isPinned
        InArchived(s) == ~s.isPinned /\ s.isArchived
        InHistory(s) == ~s.isPinned /\ ~s.isArchived
    IN [sortedChats |-> sortedChats,
        pinnedChatsList |-> SelectSeq(sortedChats, InPinned),
        archivedChatsList |-> SelectSeq(sortedChats, InArchived),
        chatHistoryList |-> SelectSeq(sortedChats, InHistory)]

(* A page of part_000 opened on a stored collection of MaxStored sessions  *)
(* made at the clock readings before the page load, the newest at the head *)
(* (saveCurrentChat unshifts), each pinned, archived, renamed or not since.*)
MaxStored == 3

PastTimes == (0 - MaxStored)..(0 - 1)

StoredSession(id, updatedAt, isPinned, isArchived) ==
    [NewSession("enhanced", id, <<"a">>,
                <<[id |-> 1, role |-> "user", text |-> <<"a">>,
                   timestamp |-> id, reactions |-> 0,
                   isBookmarked |-> FALSE]>>, id)
        EXCEPT !.updatedAt = updatedAt, !.isPinned = isPinned,
               !.isArchived = isArchived]

StoredCollections ==
    { [i \in 1..MaxStored |->
          StoredSession(0 - i, u[i], p[i], a[i])] :
        u \in { f \in [1..MaxStored -> PastTimes] :
                  \A i \in 1..MaxStored : f[i] >= 0 - i },
        p \in [1..MaxStored -> BOOLEAN],
        a \in [1..MaxStored -> BOOLEAN] }

InitSidebar ==
    /\ build = "enhanced"
    /\ now = 1
    /\ nextId = 2
    /\ chatHistory \in StoredCollections
    /\ storage = saveHistoryToStorage(chatHistory)
    /\ currentChatId = chatHistory[1].id
    /\ isAwaitingResponse = FALSE
    /\ view = SessionElements("enhanced", chatHistory[1].messages)
    /\ handlers = {}
    /\ edits = 0
    /\ settings = DefaultSettings
    /\ settingsItem = NoItem
    /\ lastOp = [op |-> "initializeApp", threw |-> FALSE]

NextSidebar ==
    \/ \E chatId \in Ids(chatHistory) : loadChatSession(chatId)
    \/ \E chatId \in Ids(chatHistory) : \E title \in TitleInputs :
          \E t \in Times : renameChat(chatId, title, t)
    \/ \E chatId \in Ids(chatHistory) : \E c \in BOOLEAN :
          deleteChat(chatId, c)
    \/ \E chatId \in Ids(chatHistory) : \E t \in Times :
          togglePinChat(chatId, t)
    \/ \E chatId \in Ids(chatHistory) : \E t \in Times :
          toggleArchiveChat(chatId, t)

SpecSidebar == InitSidebar /\ [][NextSidebar]_vars

----------------------------------------------------------------------------
(* Properties *)

StoredSessions == loadHistoryFromStorage(storage)

(* The element of the view that is the placeholder of turn h, if any. *)
PlaceholderOf(h) == { i \in 1..Len(view) : view[i].node = h.li }

(* C1: a handleFormSubmit with non-empty text while isAwaitingResponse is  *)
(* true changes nothing: no user message or placeholder is appended, no    *)
(* stream is opened, the busy flag and the session collection stay.        *)
C1_BusyGating ==
    [][ (lastOp'.op = "handleFormSubmit" /\ lastOp'.prompt # <<>>
            /\ isAwaitingResponse)
        => /\ view' = view
           /\ handlers' = handlers
           /\ isAwaitingResponse' = isAwaitingResponse
           /\ chatHistory' = chatHistory
           /\ storage' = storage
           /\ currentChatId' = currentChatId
           /\ nextId' = nextId ]_vars

C1_Witness ==
    /\ lastOp.op = "handleFormSubmit"
    /\ lastOp.prompt # <<>>
    /\ ~lastOp.accepted
    /\ isAwaitingResponse
    /\ handlers # {}

(* C2: at most one remote stream is open at any time, the busy flag is set *)
(* whenever one is open, and a regenerate request made while a turn is in  *)
(* flight removes nothing from the view and starts nothing.                *)
C2_SingleInFlightTurn ==
    /\ [](Cardinality(handlers) <= 1 /\ (handlers # {} => isAwaitingResponse))
    /\ [][ (lastOp'.op = "handleRegenerate" /\ isAwaitingResponse)
           => (view' = view /\ handlers' = handlers) ]_vars

C2_Witness ==
    /\ lastOp.op = "handleRegenerate"
    /\ ~lastOp.accepted
    /\ isAwaitingResponse
    /\ Cardinality(handlers) = 1
    /\ \E i \in 1..Len(view) : view[i].role = "user"

(* C3: after an undisturbed send whose stream delivered chunks and ended   *)
(* normally, the current session's message list, in memory and in storage, *)
(* ends with the user message holding the prompt followed by a model       *)
(* message whose text is the concatenation of the chunks.                  *)
EndsWithExchange(h, id, prompt, chunks) ==
    /\ Find(h, id) # 0
    /\ LET ms == h[Find(h, id)].messages
           n == Len(ms)
       IN /\ n >= 2
          /\ ms[n].role = "model"
          /\ ms[n].text = Concat(chunks)
          /\ ms[n - 1].role = "user"
          /\ ms[n - 1].text = prompt

C3_FinalizationOnSuccess ==
    (/\ lastOp.op = "streamEnd"
     /\ lastOp.turn.kind = "send"
     /\ lastOp.turn.clean
     /\ lastOp.turn.chunks # <<>>)
    => /\ EndsWithExchange(chatHistory, currentChatId,
                           lastOp.turn.prompt, lastOp.turn.chunks)
       /\ EndsWithExchange(StoredSessions, currentChatId,
                           lastOp.turn.prompt, lastOp.turn.chunks)

(* C4: the step in which the remote call of a send or regenerate raises    *)
(* leaves the collection, the stored collection and currentChatId as they  *)
(* are; when no other handler ran since the submission they are what they  *)
(* were just before it, and the placeholder shows the fixed error text     *)
(* instead of the partially rendered buffer.                               *)
C4_FailureTakesNoPersistenceAction ==
    /\ [][ lastOp'.op = "streamFail"
           => /\ chatHistory' = chatHistory
              /\ storage' = storage
              /\ currentChatId' = currentChatId ]_vars
    /\ []( (lastOp.op = "streamFail" /\ lastOp.turn.clean)
           => /\ chatHistory = lastOp.turn.snap.chatHistory
              /\ storage = lastOp.turn.snap.storage
              /\ currentChatId = lastOp.turn.snap.currentChatId
              /\ PlaceholderOf(lastOp.turn) # {}
              /\ \A i \in PlaceholderOf(lastOp.turn) :
                    /\ view[i].kind = "error"
                    /\ view[i].raw = IF lastOp.turn.kind = "send"
                                     THEN ErrorText ELSE ErrorTextRegenerate )

C4_Witness ==
    /\ lastOp.op = "streamFail"
    /\ lastOp.turn.clean
    /\ lastOp.turn.chunks # <<>>
    /\ chatHistory # <<>>

(* C5: no stored message, in memory or in storage, carries an error text. *)
NoErrorMessage(h) ==
    \A i \in 1..Len(h) : \A j \in 1..Len(h[i].messages) :
        h[i].messages[j].text \notin {ErrorText, ErrorTextRegenerate}

C5_NoMessageForAnError ==
    NoErrorMessage(chatHistory) /\ NoErrorMessage(StoredSessions)

(* C6: under the assumption that an open remote call eventually settles,   *)
(* every busy state is followed by an idle one, and a non-empty submission *)
(* made while idle is accepted and starts a turn.                          *)
C6_ReturnToIdle ==
    /\ isAwaitingResponse ~> ~isAwaitingResponse
    /\ [][ (lastOp'.op = "handleFormSubmit" /\ lastOp'.prompt # <<>>
               /\ ~isAwaitingResponse)
           => /\ lastOp'.accepted
              /\ isAwaitingResponse'
              /\ Cardinality(handlers') = Cardinality(handlers) + 1 ]_vars

C6_Witness ==
    /\ lastOp.op = "handleFormSubmit"
    /\ lastOp.accepted
    /\ \E i \in 1..Len(view) : view[i].kind = "error"

(* C7: currentChatId is null or the id of a session of the collection. *)
C7_CurrentChatIdValid ==
    currentChatId = NoChat \/ currentChatId \in Ids(chatHistory)

C7_Witness ==
    /\ lastOp.op = "deleteChat"
    /\ lastOp.confirmed
    /\ lastOp.wasCurrent
    /\ handlers # {}
    /\ currentChatId = NoChat

(* C8: no two sessions of the collection have the same id. *)
C8_SessionIdsUnique ==
    \A i, j \in 1..Len(chatHistory) :
        i # j => chatHistory[i].id # chatHistory[j].id

(* C9: the collection grows only in the save that follows a stream's       *)
(* normal end, by one session; every session, in memory and in storage,    *)
(* has a non-empty message list.                                           *)
NoEmptySession(h) == \A i \in 1..Len(h) : h[i].messages # <<>>

C9_LazyCreation ==
    /\ [](NoEmptySession(chatHistory) /\ NoEmptySession(StoredSessions))
    /\ [][ Len(chatHistory') > Len(chatHistory)
           => /\ lastOp'.op = "streamEnd"
              /\ Len(chatHistory') = Len(chatHistory) + 1 ]_vars

C9_Witness ==
    /\ lastOp.op = "streamFail"
    /\ lastOp.turn.kind = "send"
    /\ chatHistory = <<>>
    /\ currentChatId = NoChat
    /\ Len(view) = 2

(* C10: a confirmed deleteChat of session A removes exactly one session,   *)
(* A; the remaining sessions are unchanged and keep their order.           *)
C10_DeleteRemovesExactlyOne ==
    [][ (lastOp'.op = "deleteChat" /\ lastOp'.confirmed)
        => \E k \in 1..Len(chatHistory) :
              /\ chatHistory[k].id = lastOp'.chatId
              /\ chatHistory' = SubSeq(chatHistory, 1, k - 1)
                                \o SubSeq(chatHistory, k + 1, Len(chatHistory))
      ]_vars

(* C11: every step that changes the in-memory collection leaves under the  *)
(* chatHistory key the serialization of the collection it produced.        *)
C11_WholeCollectionPersisted ==
    [][ chatHistory' # chatHistory
        => storage' = saveHistoryToStorage(chatHistory') ]_vars

(* C12: initializeApp never throws; over a missing, unparseable or         *)
(* non-array chatHistory item it leaves an empty collection and a null     *)
(* currentChatId, and over an unusable settings item the default settings. *)
UsableHistoryItem(item) ==
    /\ item # NoItem
    /\ item.type = "array"
    /\ \A i \in 1..Len(item.json) : IsSession(item.json[i])

UsableSettingsItem(item) ==
    /\ item # NoItem
    /\ item.type = "object"
    /\ item.json.temperature # "null"
    /\ item.json.maxTokens # "null"

C12_StorageCorruptionFallback ==
    lastOp.op = "initializeApp"
    => /\ ~lastOp.threw
       /\ ~UsableHistoryItem(storage)
             => (chatHistory = <<>> /\ currentChatId = NoChat)
       /\ ~UsableSettingsItem(settingsItem) => settings = DefaultSettings

(* C13: a save (the one after a stream's end, or Ctrl/Cmd+S) of a session  *)
(* that was already stored keeps every message it had: same id, role, text *)
(* and timestamp, in the same relative order.                              *)
Core(m) == [id |-> m.id, role |-> m.role, text |-> m.text,
            timestamp |-> m.timestamp]

RECURSIVE IsSubsequence(_, _)
IsSubsequence(a, b) ==
    IF a = <<>> THEN TRUE
    ELSE IF b = <<>> THEN FALSE
    ELSE IF Core(Head(a)) = Core(Head(b))
    THEN IsSubsequence(Tail(a), Tail(b))
    ELSE IsSubsequence(a, Tail(b))

C13_MessageImmutability ==
    [][ lastOp'.op \in {"streamEnd", "handleKeyboardShortcuts"}
        => \A id \in Ids(chatHistory) :
              IsSubsequence(chatHistory[Find(chatHistory, id)].messages,
                            chatHistory'[Find(chatHistory', id)].messages)
      ]_vars

(* C14: the title of a session created from prompt p is p when p has at    *)
(* most 30 characters, and otherwise the first 27 characters of p followed *)
(* by three dots, 30 characters in all.                                    *)
C14_TitleDerivation ==
    [][ Len(chatHistory') > Len(chatHistory)
        => LET p == lastOp'.turn.prompt
               title == chatHistory'[1].title
           IN /\ Len(p) <= 30 => title = p
              /\ Len(p) > 30 =>
                    /\ Len(title) = 30
                    /\ SubSeq(title, 1, 27) = SubSeq(p, 1, 27)
                    /\ SubSeq(title, 28, 30) = <<".", ".", ".">> ]_vars

C14_Witness ==
    /\ Len(chatHistory) = 2
    /\ Len(chatHistory[1].title) = 30
    /\ SubSeq(chatHistory[1].title, 28, 30) = <<".", ".", ".">>
    /\ chatHistory[1].messages[1].text = LongPrompt(MaxPromptLen)
    /\ chatHistory[2].title = LongPrompt(30)
    /\ chatHistory[2].messages[1].text = LongPrompt(30)

(* C15: when a session is created its title is the derived title of the   *)
(* text of the first user message of its stored message list.              *)
FirstUserText(ms) ==
    LET users == SelectSeq(ms, LAMBDA m : m.role = "user")
    IN IF users = <<>> THEN <<>> ELSE users[1].text

C15_TitleFromFirstPrompt ==
    [][ Len(chatHistory') > Len(chatHistory)
        => chatHistory'[1].title
              = TitleOf(FirstUserText(chatHistory'[1].messages)) ]_vars

(* C16: no step other than a renameChat with a non-blank title changes    *)
(* the title of a session: the sessions a step keeps (every step but a     *)
(* delete keeps them all, a creation shifts them by one) keep their title. *)
C16_TitleNeverAutoChanged ==
    [][ (lastOp'.op # "deleteChat"
           /\ (lastOp'.op = "renameChat" => lastOp'.newTitle = <<>>))
        => LET d == Len(chatHistory') - Len(chatHistory)
           IN /\ d \in {0, 1}
              /\ \A i \in 1..Len(chatHistory) :
                    chatHistory'[i + d].title = chatHistory[i].title ]_vars

C16_Witness ==
    /\ lastOp.op = "streamEnd"
    /\ lastOp.turn.kind = "send"
    /\ currentChatId # NoChat
    /\ Len(chatHistory) = 1
    /\ chatHistory[1].id = currentChatId
    /\ Len(chatHistory[1].messages) = 2
    /\ chatHistory[1].title # TitleOf(lastOp.turn.prompt)

(* C17: a save with a null currentChatId that stores something puts one   *)
(* new session at the head and leaves the others as they are, in order; a  *)
(* save with a non-null currentChatId changes nothing but the message list *)
(* and updatedAt of the session with that id.                              *)
SameBut(s1, s2) ==
    [s1 EXCEPT !.messages = <<>>, !.updatedAt = 0]
       = [s2 EXCEPT !.messages = <<>>, !.updatedAt = 0]

C17_UpsertTouchesOnlyTarget ==
    [][ lastOp'.op \in {"streamEnd", "handleKeyboardShortcuts"}
        => IF currentChatId = NoChat
           THEN \/ chatHistory' = chatHistory
                \/ /\ Len(chatHistory') = Len(chatHistory) + 1
                   /\ Tail(chatHistory') = chatHistory
                   /\ chatHistory'[1].id = currentChatId'
           ELSE /\ Len(chatHistory') = Len(chatHistory)
                /\ currentChatId' = currentChatId
                /\ \A i \in 1..Len(chatHistory) :
                      IF i = Find(chatHistory, currentChatId)
                      THEN SameBut(chatHistory'[i], chatHistory[i])
                      ELSE chatHistory'[i] = chatHistory[i] ]_vars

C17_Witness ==
    /\ lastOp.op = "handleKeyboardShortcuts"
    /\ Len(chatHistory) = 2
    /\ chatHistory[1].id # chatHistory[2].id
    /\ currentChatId = chatHistory[2].id
    /\ chatHistory[2].updatedAt > chatHistory[2].createdAt

(* C18: streaming monotonicity.  While a turn streams, after its k-th     *)
(* chunk the buffer is the concatenation of the k chunks received, in      *)
(* order, and its placeholder displays parseMarkdown of that               *)
(* concatenation.                                                          *)
C18_StreamingMonotonicity ==
    \A h \in handlers :
        (h.pc = "streaming" /\ h.chunks # <<>>)
        => /\ h.fullResponse = Concat(h.chunks)
           /\ \A i \in PlaceholderOf(h) :
                 /\ view[i].kind = "stream"
                 /\ view[i].html = parseMarkdown(build, Concat(h.chunks))

(* Three chunks whose markup only exists across the chunk boundaries. *)
C18_Witness ==
    \E h \in handlers :
        /\ h.pc = "streaming"
        /\ h.chunks = << <<"*">>, <<"a">>, <<"*">> >>
        /\ \E i \in PlaceholderOf(h) : view[i].html = <<"<em>", "a", "</em>">>

Count(s, c) == Cardinality({ i \in 1..Len(s) : s[i] = c })

(* html holds no '<' or '>' of its own, and an entity for each one of raw. *)
Escaped(raw, html) ==
    /\ Count(html, "<") = 0
    /\ Count(html, ">") = 0
    /\ Count(html, "&lt;") >= Count(raw, "<")
    /\ Count(html, "&gt;") >= Count(raw, ">")

(* C19: escaping invariant.  Whatever raw text parseMarkdown rendered      *)
(* into an element, every '<' and '>' of the raw text is in the element's  *)
(* HTML as '&lt;' / '&gt;' only, inside and outside a fenced code block;   *)
(* the only literal '<' and '>' are those of the markup the renderer       *)
(* wrote.                                                                  *)
C19_EscapingInvariant ==
    /\ \A i \in 1..Len(view) :
          view[i].kind \in {"text", "final"}
          => Escaped(view[i].raw, view[i].html)
    /\ \A h \in handlers : \A i \in PlaceholderOf(h) :
          view[i].kind = "stream" => Escaped(h.fullResponse, view[i].html)

(* A tag outside a fence and the same tag inside one. *)
C19_Witness ==
    \E h \in handlers :
        /\ h.fullResponse =
              <<"<", "b", ">">> \o FenceMark \o <<"\n", "<", "b", ">">>
                 \o FenceMark
        /\ \E i \in PlaceholderOf(h) :
              view[i].html =
                 <<"&lt;", "b", "&gt;", "<pre>", "<code class=\"language-",
                   "plaintext", " hljs\">", "&lt;", "b", "&gt;",
                   "</code>", "</pre>">>

(* The code blocks the closed fences of raw stand for, from left to       *)
(* right: the tag or plaintext, then the body with '<' and '>' escaped and *)
(* the surrounding white space trimmed.                                    *)
RECURSIVE FenceBlocks(_)
FenceBlocks(raw) ==
    IF raw = <<>> THEN <<>>
    ELSE LET m == FenceAt(raw)
         IN IF m.ok
            THEN <<CodeBlock(m.lang, escapeHTML(Trim(m.code)))>>
                    \o FenceBlocks(m.rest)
            ELSE FenceBlocks(Tail(raw))

(* html holds the blocks, each whole and untouched, in their order. *)
RECURSIVE HoldsInOrder(_, _)
HoldsInOrder(html, blocks) ==
    IF blocks = <<>> THEN TRUE
    ELSE LET at == IndexOfFrom(html, Head(blocks), 1)
         IN /\ at # 0
            /\ HoldsInOrder(SubSeq(html, at + Len(Head(blocks)), Len(html)),
                            Tail(blocks))

(* C20: fence priority.  Whatever raw text parseMarkdown rendered into a   *)
(* placeholder, the body of each closed fence is in the element's HTML         *)
(* verbatim (escaped, trimmed) inside its pre/code element: no bold,       *)
(* italic, inline-code or link markup is written into a fence body.        *)
C20_FencePriority ==
    \A h \in handlers : \A i \in PlaceholderOf(h) :
        view[i].kind = "stream"
        => HoldsInOrder(view[i].html, FenceBlocks(h.fullResponse))

(* The raw text that stands outside every closed fence. *)
RECURSIVE OutsideFences(_)
OutsideFences(raw) ==
    IF raw = <<>> THEN <<>>
    ELSE LET m == FenceAt(raw)
         IN IF m.ok THEN OutsideFences(m.rest)
            ELSE <<Head(raw)>> \o OutsideFences(Tail(raw))

(* html holds one code block per closed fence of raw, the i-th block       *)
(* holding the i-th body, and every placeholder text typed outside a fence *)
(* as that text.                                                           *)
NoCollision(raw, html) ==
    /\ Count(html, "</pre>") = Len(FenceBlocks(raw))
    /\ HoldsInOrder(html, FenceBlocks(raw))
    /\ Count(html, PlaceholderTokens[1])
          >= Count(OutsideFences(raw), PlaceholderTokens[1])

(* C21: placeholder non-collision.  Whatever raw text parseMarkdown        *)
(* rendered into a placeholder, the HTML has as many code blocks as the raw   *)
(* text has closed fences, the i-th block holds the i-th fence's body, and *)
(* a placeholder text typed outside a fence is displayed as typed.         *)
C21_PlaceholderNonCollision ==
    \A h \in handlers : \A i \in PlaceholderOf(h) :
        view[i].kind = "stream" => NoCollision(h.fullResponse, view[i].html)

(* C22: idempotence of raw storage.  After an undisturbed send whose       *)
(* stream delivered chunks and ended normally, the stored session ends     *)
(* with the model message of the turn, and parseMarkdown of its stored     *)
(* text is the HTML the turn's element displays.                           *)
C22_RawStorageIdempotence ==
    (/\ lastOp.op = "streamEnd"
     /\ lastOp.turn.kind = "send"
     /\ lastOp.turn.clean
     /\ lastOp.turn.chunks # <<>>)
    => /\ Find(StoredSessions, currentChatId) # 0
       /\ LET ms == StoredSessions[Find(StoredSessions, currentChatId)].messages
          IN /\ ms # <<>>
             /\ ms[Len(ms)].role = "model"
             /\ \A i \in 1..Len(view) :
                   view[i].node = lastOp.turn.li
                   => view[i].html = parseMarkdown(build, ms[Len(ms)].text)

(* The stored message list of session id in the stored item st. *)
StoredMessages(st, id) ==
    LET h == loadHistoryFromStorage(st)
    IN IF Find(h, id) = 0 THEN <<>> ELSE h[Find(h, id)].messages

(* C23: regenerate replaces, never accumulates.  When a regeneration was   *)
(* accepted on a session whose stored list ended with a user message u and *)
(* a model message, and its stream delivered chunks and ended normally,    *)
(* the stored list has the same length, the same messages up to u, a last  *)
(* model message holding the concatenation of the chunks, and the prompt   *)
(* sent was the text of u.                                                 *)
C23_RegenerateReplaces ==
    LET turn == lastOp.turn
        before == StoredMessages(turn.snap.storage, turn.snap.currentChatId)
        after == StoredMessages(storage, turn.snap.currentChatId)
        n == Len(before)
    IN (/\ lastOp.op = "streamEnd"
        /\ turn.kind = "regenerate"
        /\ turn.clean
        /\ turn.chunks # <<>>
        /\ n >= 2
        /\ before[n].role = "model"
        /\ before[n - 1].role = "user")
       => /\ Len(after) = n
          /\ SubSeq(after, 1, n - 1) = SubSeq(before, 1, n - 1)
          /\ after[n].role = "model"
          /\ after[n].text = Concat(turn.chunks)
          /\ turn.prompt = before[n - 1].text

(* C24: deletion is irreversible.  A session removed by a confirmed         *)
(* deleteChat never comes back; in particular the step that follows the    *)
(* deletion, be it the end of a stream that was in flight, leaves no       *)
(* session with the deleted id in the collection or in the stored          *)
(* collection.                                                             *)
C24_DeletionIrreversible ==
    [][ (lastOp.op = "deleteChat" /\ lastOp.confirmed)
        => /\ lastOp.chatId \notin Ids(chatHistory')
           /\ lastOp.chatId \notin Ids(loadHistoryFromStorage(storage')) ]_vars

(* C25: abandoned streams are harmless.  Once the view a turn was started  *)
(* in has been replaced (another session loaded, New Chat), so that the    *)
(* turn's placeholder is no longer in the view, no chunk, completion or    *)
(* failure of that turn changes the collection or the stored collection.   *)
C25_AbandonedStreamsHarmless ==
    [][ /\ lastOp'.op = "streamChunk" => chatHistory' = chatHistory
        /\ (/\ lastOp'.op \in {"streamEnd", "streamFail"}
            /\ \A i \in 1..Len(view) : view[i].node # lastOp'.turn.li)
           => /\ chatHistory' = chatHistory
              /\ storage' = storage ]_vars

(* C26: the in-flight user message is not persisted before success.  While *)
(* isAwaitingResponse holds, no stored session holds the user message of   *)
(* a send that is in flight (the message appended just before the turn's   *)
(* placeholder).                                                           *)
C26_InFlightMessageNotPersisted ==
    isAwaitingResponse
    => \A h \in handlers :
          h.kind = "send"
          => \A i \in 1..Len(StoredSessions) :
                \A j \in 1..Len(StoredSessions[i].messages) :
                   StoredSessions[i].messages[j].id # h.li - 1

(* C27: empty submissions are silently ignored.  A handleFormSubmit whose  *)
(* input is empty or white space only, made while idle, leaves the busy    *)
(* flag false, the view (no message, no error text), the open streams, the *)
(* collection and the stored collection as they are.                       *)
C27_EmptySubmissionIgnored ==
    [][ (lastOp'.op = "handleFormSubmit" /\ lastOp'.prompt = <<>>
            /\ ~isAwaitingResponse)
        => /\ ~lastOp'.accepted
           /\ ~isAwaitingResponse'
           /\ view' = view
           /\ handlers' = handlers
           /\ chatHistory' = chatHistory
           /\ storage' = storage
           /\ currentChatId' = currentChatId
           /\ nextId' = nextId ]_vars

C27_Witness ==
    /\ lastOp.op = "handleFormSubmit"
    /\ lastOp.prompt = <<>>
    /\ ~lastOp.accepted
    /\ ~isAwaitingResponse
    /\ handlers = {}
    /\ view # <<>>
    /\ chatHistory # <<>>

(* The same sessions inserted in another order. *)
Reordered(h, p) == [i \in 1..Len(h) |-> h[p[i]]]

(* Two sessions of equal pinned status share an updatedAt. *)
HasTies(h) ==
    \E i, j \in 1..Len(h) :
        i # j /\ h[i].isPinned = h[j].isPinned /\ h[i].updatedAt = h[j].updatedAt

(* What the order is stated about: pinned status and updatedAt. *)
OrderKeys(h) == [i \in 1..Len(h) |-> <<h[i].isPinned, h[i].updatedAt>>]

NonIncreasing(list) ==
    \A i, j \in 1..Len(list) :
        (i < j /\ list[i].isPinned = list[j].isPinned)
            => list[i].updatedAt >= list[j].updatedAt

(* C28: renderHistoryList presents every session of the collection exactly *)
(* once, every pinned session ahead of every unpinned one, sessions of     *)
(* equal pinned status in non-increasing updatedAt order, and the order is *)
(* the same for every insertion order of the collection except among       *)
(* sessions that tie in updatedAt.                                         *)
C28_DisplayOrder ==
    LET r == renderHistoryList(chatHistory)
        s == r.sortedChats
        shown == r.pinnedChatsList \o r.chatHistoryList \o r.archivedChatsList
    IN /\ Len(shown) = Len(chatHistory)
       /\ \A i \in 1..Len(chatHistory) :
             Cardinality({j \in 1..Len(shown) : shown[j] = chatHistory[i]})
                = Cardinality({j \in 1..Len(chatHistory) :
                                  chatHistory[j] = chatHistory[i]})
       /\ \A i, j \in 1..Len(s) : (i < j /\ s[j].isPinned) => s[i].isPinned
       /\ NonIncreasing(s)
       /\ NonIncreasing(r.pinnedChatsList)
       /\ NonIncreasing(r.chatHistoryList)
       /\ NonIncreasing(r.archivedChatsList)
       /\ \A p \in Permutations(1..Len(chatHistory)) :
             LET s2 == renderHistoryList(Reordered(chatHistory, p)).sortedChats
             IN /\ OrderKeys(s2) = OrderKeys(s)
                /\ ~HasTies(chatHistory) => s2 = s

(* A toggle left three sessions whose display order differs from their    *)
(* insertion order: a pinned one behind an unpinned one, and two unpinned  *)
(* ones oldest first.                                                      *)
C28_Witness ==
    /\ lastOp.op = "togglePinChat"
    /\ Len(chatHistory) = MaxStored
    /\ ~chatHistory[1].isPinned /\ ~chatHistory[2].isPinned
    /\ chatHistory[3].isPinned
    /\ chatHistory[1].updatedAt < chatHistory[2].updatedAt
    /\ ~HasTies(chatHistory)
    /\ renderHistoryList(chatHistory).sortedChats
          = <<chatHistory[3], chatHistory[2], chatHistory[1]>>

(* C29: no completed exchange is silently lost.  When the stream of an     *)
(* accepted submission ends normally, the stored collection the handler    *)
(* leaves behind holds the submitted prompt as a user message of some      *)
(* session, whatever navigation happened while the stream was in flight.   *)
C29_NoCompletedExchangeLost ==
    [][ (lastOp'.op = "streamEnd" /\ lastOp'.turn.kind = "send")
        => LET h == loadHistoryFromStorage(storage')
           IN \E i \in 1..Len(h) :
                 \E j \in 1..Len(h[i].messages) :
                    /\ h[i].messages[j].role = "user"
                    /\ h[i].messages[j].text = lastOp'.turn.prompt ]_vars

(* C30: message metadata survives later turns.  A step that is neither     *)
(* toggleReaction nor toggleBookmark leaves the reactions and the bookmark *)
(* flag of every message that stays in its session (same session id, same  *)
(* message id) as they were, in the collection and so in the stored item.  *)
C30_MetadataSurvives ==
    [][ lastOp'.op \notin {"toggleReaction", "toggleBookmark"}
        => \A i \in 1..Len(chatHistory) : \A i2 \in 1..Len(chatHistory') :
              chatHistory[i].id = chatHistory'[i2].id
              => LET ms == chatHistory[i].messages
                     ms2 == chatHistory'[i2].messages
                 IN \A j \in 1..Len(ms) : \A j2 \in 1..Len(ms2) :
                       ms[j].id = ms2[j2].id
                       => /\ ms2[j2].reactions = ms[j].reactions
                          /\ ms2[j2].isBookmarked = ms[j].isBookmarked ]_vars

----------------------------------------------------------------------------
(* The remote call settles: it resolves, ends or raises. *)
StreamSettles ==
    \E h \in handlers :
        \/ StreamOpen(h)
        \/ \E t \in Times : StreamEnd(h, t)
        \/ StreamFail(h)

(* The turn state machine of part_000 with a remote call that settles. *)
FairSpec == Init /\ [][NextTurn]_vars /\ WF_vars(StreamSettles)

====
